---- MODULE Spec2Model ----
(***************************************************************************)
(* Real-time transport layer of the legal-assistant browser client:        *)
(*   - the workflow socket channel  (hooks/useWebSocket, React hook)       *)
(*   - the notification socket channel (js/main.js, initializeWebSocket)   *)
(*   - the chunked reply stream     (js/chat.js, sendStreamingMessage)     *)
(* Every handler runs to completion on the single event-loop thread, so    *)
(* each handler is one action.                                             *)
(***************************************************************************)
EXTENDS Integers, Sequences, FiniteSets, TLC

\* ------------------------------------------------------------------ bounds
\* socket objects that may be alive (not yet closed) at the same time
MaxSockets == 2
\* timer handles that may be pending or still referenced at the same time
MaxTimers == 2
\* entries of the workflow channel's message log when every frame shape is sent
MaxLog == 3
\* entries of the log when the channel is also torn down and reopened
MaxLifecycleLog == 1
\* toasts on screen at the same time (notification channel)
MaxToasts == 2
\* uncaught exceptions reported to the window (notification channel)
MaxUncaught == 2
\* lines of a streamed response body
MaxLines == 2
\* calls of sendMessage that reached socket.send
MaxSent == 1
\* calls of sendMessage
MaxSendCalls == 2

\* ------------------------------------------------------- program constants
\* the JavaScript null / undefined of a handle-valued variable
null == 0
\* page.tsx: the only id the page ever passes to the hook, or undefined
MOCK_WORKFLOW_ID == "demo-workflow-123"
undefined == "undefined"
WorkflowIds == {MOCK_WORKFLOW_ID, undefined}
\* reconnect delay of the workflow channel, in ms
ReconnectDelay == 3000
\* reconnect delay of the notification channel, in ms
ReconnectDelayB == 5000

SocketHandles == 1..MaxSockets
TimerHandles == 1..MaxTimers

\* ------------------------------------------------------------------- state
VARIABLES
    \* --- useWebSocket(workflowId), one mounted instance (page.tsx Home)
    workflowId,          \* the hook's argument at the last render
    mounted,             \* FALSE once the component has unmounted
    socket,              \* useState<WebSocket | null>
    isConnected,         \* useState(false)
    messages,            \* useState<WebSocketMessage[]>
    workflowStatus,      \* useState<WorkflowUpdate | null>
    wsArguments,         \* useState<ArgumentGenerated[]>
    debateTurns,         \* useState<DebateTurn[]>
    feedback,            \* useState<FeedbackReady | null>
    reconnectTimeoutRef, \* useRef<NodeJS.Timeout>().current
    cleanupSocket,       \* the `socket` captured by the pending effect cleanup
    \* --- the browser: WebSocket objects and the timer queue
    sockets,             \* handle -> [readyState, stale]
    timers,              \* pending reconnect timers, in firing order
    \* --- main.js: the notification channel (AppState.websocket)
    websocket,           \* AppState.websocket
    socketsB,            \* handle -> readyState, the sockets main.js created
    timersB,             \* pending setTimeout(initializeWebSocket, 5000) calls
    analysisTab,         \* what updateAnalysisPanel rendered last
    toasts,              \* toasts on screen, oldest first
    uncaughtErrors,      \* exceptions that escaped a handler of the channel
    \* --- chat.js: one call of sendStreamingMessage and what it touches
    body,                \* the response body, a sequence of lines
    pos,                 \* characters of the body already returned by reader.read()
    phase,               \* idle, fetching, reading, done or failed
    streamError,         \* the exception that left sendStreamingMessage, or none
    accumulatedContent,  \* let accumulatedContent = ''
    assistantMessageId,  \* let assistantMessageId = null
    dom,                 \* the message elements appended to #chatMessages
    chatDefined,         \* whether the page gave ChatState a messages array
    chatMessages,        \* ChatState.messages
    hasMarked,           \* whether window.marked is loaded
    streamEvents,        \* the parsed chunks in processing order (observation)
    torn,                \* the lines a read boundary fell inside (observation)
    \* --- what the hook's sendMessage handed to socket.send, per call
    sent,                \* sequence of [socket, message]
    sendCalls,           \* number of calls of sendMessage so far (observation)
    \* --- page.tsx: Home, the consumer of the hook, and its fallback simulator
    mode,                \* useState<'single' | 'debate'>('single')
    userInput,           \* useState(''), a sequence of words
    workflowStarted,     \* useState(false)
    useMockData,         \* useState(false)
    mockArguments,       \* useState<any[]>([])
    mockDebateTurns,     \* useState<any[]>([])
    mockFeedback,        \* useState<any>(null)
    startPhase,          \* where the pending handleStartWorkflow call is
    startMode,           \* the `mode` that call closed over
    simTimers,           \* pending setTimeout calls of the fallback, as scheduled
    \* --- the chat of main.js and what chat.js sends with a request
    appMessages,         \* AppState.messages
    appPending,          \* calls of sendMessage awaiting the answer of /api/chat
    lastContext,         \* requestData.context of the latest sendEnhancedMessage
    \* --- chat.js: the clock, and a second call of sendStreamingMessage
    clock,               \* what Date.now() returns, in ms
    other                \* the locals of the second call: body, pos, phase, ...

hookVars == <<workflowId, mounted, socket, isConnected, messages, workflowStatus,
              wsArguments, debateTurns, feedback, reconnectTimeoutRef, cleanupSocket,
              sockets, timers>>

notifVars == <<websocket, socketsB, timersB, analysisTab, toasts, uncaughtErrors>>

streamVars == <<body, pos, phase, streamError, accumulatedContent, assistantMessageId,
                dom, chatDefined, chatMessages, hasMarked, streamEvents, torn>>

sendVars == <<sent, sendCalls>>
\* the state outside the two channels and the reply stream
pageVars == <<mode, userInput, workflowStarted, useMockData, mockArguments,
              mockDebateTurns, mockFeedback, startPhase, startMode, simTimers>>
\* the clock and the second stream session
concVars == <<clock, other>>
chatVars == <<appMessages, appPending, lastContext, concVars>>
extVars == <<sendVars, pageVars, chatVars>>

vars == <<hookVars, notifVars, streamVars, extVars>>

\* ------------------------------------------------------------ wire messages
\* A raw frame is either text that JSON.parse rejects, or the text of a JSON
\* value: null, or an object with a type field and a payload.
KnownTypes == {"workflow_update", "argument_generated", "debate_turn", "feedback_ready"}
NotificationTypes == {"analysis_update", "case_update", "notification"}
Payloads == {"p", "q"}

JsonNull == [isObject |-> FALSE, type |-> "", payload |-> ""]
JsonObjects(types, payloads) == [isObject : {TRUE}, type : types, payload : payloads]

RawOf(values) == [wellFormed : {TRUE}, value : values \cup {JsonNull}]
                    \cup {[wellFormed |-> FALSE, value |-> JsonNull]}

\* frames the workflow channel may receive: its four types, a type it does
\* not know, null, and text that is not JSON
RawMessages == RawOf(JsonObjects(KnownTypes \cup {"notification"}, Payloads))
\* the same with one payload per type
SampleMessages == RawOf(JsonObjects(KnownTypes \cup {"notification"}, {"p"}))
\* frames the notification channel may receive
RawNotifications == RawOf(JsonObjects(NotificationTypes \cup {"workflow_update"}, Payloads))

\* JSON.parse(event.data): throws a SyntaxError on text that is not JSON
JSONparse(raw) ==
    IF raw.wellFormed THEN [threw |-> FALSE, data |-> raw.value]
                      ELSE [threw |-> TRUE, data |-> JsonNull]

\* the state buckets of the hook as one record
Buckets ==
    [messages |-> messages, workflowStatus |-> workflowStatus,
     wsArguments |-> wsArguments, debateTurns |-> debateTurns, feedback |-> feedback]

NoStatus == JsonNull

\* Dispatch with a feedback snapshot that is kept once set
Dispatch_FeedbackFirstWins(b, raw) ==
    LET r == JSONparse(raw) IN
    IF r.threw THEN b
    ELSE LET data == r.data
             b1 == [b EXCEPT !.messages = Append(b.messages, data)]
         IN  IF ~data.isObject THEN b1
             ELSE CASE data.type = "workflow_update" ->
                         [b1 EXCEPT !.workflowStatus = data]
                    [] data.type = "argument_generated" ->
                         [b1 EXCEPT !.wsArguments = Append(b.wsArguments, data)]
                    [] data.type = "debate_turn" ->
                         [b1 EXCEPT !.debateTurns = Append(b.debateTurns, data)]
                    [] data.type = "feedback_ready" ->
                         IF b.feedback = JsonNull THEN [b1 EXCEPT !.feedback = data] ELSE b1
                    [] OTHER -> b1

\* Dispatch with a default branch that treats an unknown type as an argument
Dispatch_DefaultRoutes(b, raw) ==
    LET r == JSONparse(raw) IN
    IF r.threw THEN b
    ELSE LET data == r.data
             b1 == [b EXCEPT !.messages = Append(b.messages, data)]
         IN  IF ~data.isObject THEN b1
             ELSE CASE data.type = "workflow_update" ->
                         [b1 EXCEPT !.workflowStatus = data]
                    [] data.type = "debate_turn" ->
                         [b1 EXCEPT !.debateTurns = Append(b.debateTurns, data)]
                    [] data.type = "feedback_ready" ->
                         [b1 EXCEPT !.feedback = data]
                    [] OTHER -> [b1 EXCEPT !.wsArguments = Append(b.wsArguments, data)]

\* ws.onmessage: parse, append to the log, then switch on data.type.  Reading
\* data.type of null throws a TypeError after the append was queued; both
\* exceptions are caught by the handler's try/catch.
Dispatch(b, raw) ==
    LET r == JSONparse(raw) IN
    IF r.threw THEN b
    ELSE LET data == r.data
             b1 == [b EXCEPT !.messages = Append(b.messages, data)]
         IN  IF ~data.isObject THEN b1
             ELSE CASE data.type = "workflow_update" ->
                         [b1 EXCEPT !.workflowStatus = data]
                    [] data.type = "argument_generated" ->
                         [b1 EXCEPT !.wsArguments = Append(b.wsArguments, data)]
                    [] data.type = "debate_turn" ->
                         [b1 EXCEPT !.debateTurns = Append(b.debateTurns, data)]
                    [] data.type = "feedback_ready" ->
                         [b1 EXCEPT !.feedback = data]
                    [] OTHER -> b1

SetBuckets(b) ==
    /\ messages' = b.messages
    /\ workflowStatus' = b.workflowStatus
    /\ wsArguments' = b.wsArguments
    /\ debateTurns' = b.debateTurns
    /\ feedback' = b.feedback

\* ------------------------------------------------------- browser primitives
ClosedSocket == [readyState |-> "CLOSED", stale |-> FALSE]

\* a handle can name a new object once the old one is closed and unreferenced
FreeSockets ==
    {h \in SocketHandles :
        sockets[h].readyState = "CLOSED" /\ h # socket /\ h # cleanupSocket}
NewSocket == CHOOSE h \in FreeSockets : \A g \in FreeSockets : h <= g

PendingTimers == {timers[i].handle : i \in 1..Len(timers)}
FreeTimers == {t \in TimerHandles : t \notin PendingTimers /\ t # reconnectTimeoutRef}
NewTimer == CHOOSE t \in FreeTimers : \A u \in FreeTimers : t <= u

\* WebSocket.close(): starts the closing handshake; no effect once closing/closed
CloseCall(socks, h) ==
    IF socks[h].readyState \in {"CONNECTING", "OPEN"}
        THEN [socks EXCEPT ![h].readyState = "CLOSING"]
        ELSE socks

\* clearTimeout(t): no effect when t is not pending
ClearTimeout(ts, t) == SelectSeq(ts, LAMBDA x : x.handle # t)

\* connect() without its guard
ShouldConnect_Always(id) == TRUE

\* `if (!workflowId) return` at the top of connect()
ShouldConnect(id) == id # undefined

\* everything that exists when a teardown runs belongs to the torn-down
\* connection (bookkeeping only: no handler reads the stale flag)
MarkSockets(socks) ==
    [h \in SocketHandles |->
        IF socks[h].readyState = "CLOSED" THEN socks[h]
        ELSE [socks[h] EXCEPT !.stale = TRUE]]
MarkTimers(ts) == [i \in 1..Len(ts) |-> [ts[i] EXCEPT !.stale = TRUE]]

\* the effect cleanup: closes the socket it captured, clears the timer in the ref
CleanupSockets ==
    IF cleanupSocket # null THEN CloseCall(sockets, cleanupSocket) ELSE sockets
CleanupTimers ==
    IF reconnectTimeoutRef # null THEN ClearTimeout(timers, reconnectTimeoutRef)
    ELSE timers

\* ----------------------------------------------------------------- actions
HookInit ==
    /\ workflowId = undefined
    /\ mounted = TRUE
    /\ socket = null
    /\ isConnected = FALSE
    /\ messages = <<>>
    /\ workflowStatus = NoStatus
    /\ wsArguments = <<>>
    /\ debateTurns = <<>>
    /\ feedback = NoStatus
    /\ reconnectTimeoutRef = null
    /\ cleanupSocket = null
    /\ sockets = [h \in SocketHandles |-> ClosedSocket]
    /\ timers = <<>>

\* DOMContentLoaded has run initializeWebSocket() once
NotifInit ==
    /\ websocket = 1
    /\ socketsB = [h \in SocketHandles |-> IF h = 1 THEN "CONNECTING" ELSE "CLOSED"]
    /\ timersB = <<>>
    /\ analysisTab = ""
    /\ toasts = <<>>
    /\ uncaughtErrors = 0

\* The hook's argument changes: the cleanup of the previous effect runs, then
\* the effect of the new render calls connect() for the new id.  The new
\* cleanup closes over the `socket` of the render that created it.
IdChangeCore(newId) ==
    /\ mounted
    /\ newId # workflowId
    /\ ShouldConnect(newId) => FreeSockets # {}
    /\ workflowId' = newId
    /\ cleanupSocket' = socket
    /\ timers' = MarkTimers(CleanupTimers)
    /\ IF ShouldConnect(newId)
          THEN /\ sockets' = [MarkSockets(CleanupSockets) EXCEPT ![NewSocket] =
                                 [readyState |-> "CONNECTING", stale |-> FALSE]]
               /\ socket' = NewSocket
          ELSE /\ sockets' = MarkSockets(CleanupSockets)
               /\ socket' = socket
    /\ UNCHANGED <<mounted, isConnected, messages, workflowStatus, wsArguments,
                   debateTurns, feedback, reconnectTimeoutRef,
                   notifVars, streamVars, sendVars>>

\* the same, with a consumer that changes nothing else in that render
IdChange(newId) == IdChangeCore(newId) /\ UNCHANGED <<pageVars, chatVars>>

\* The component unmounts: only the cleanup runs; state setters called later
\* by surviving handlers have no effect.
Unmount ==
    /\ mounted
    /\ mounted' = FALSE
    /\ sockets' = MarkSockets(CleanupSockets)
    /\ timers' = MarkTimers(CleanupTimers)
    /\ UNCHANGED <<workflowId, socket, isConnected, messages, workflowStatus,
                   wsArguments, debateTurns, feedback, reconnectTimeoutRef,
                   cleanupSocket,
                   notifVars, streamVars, extVars>>

\* ws.onopen
SocketOpen(h) ==
    /\ sockets[h].readyState = "CONNECTING"
    /\ sockets' = [sockets EXCEPT ![h].readyState = "OPEN"]
    /\ isConnected' = IF mounted THEN TRUE ELSE isConnected
    /\ timers' = CleanupTimers
    /\ UNCHANGED <<workflowId, mounted, socket, messages, workflowStatus, wsArguments,
                   debateTurns, feedback, reconnectTimeoutRef, cleanupSocket,
                   notifVars, streamVars, extVars>>

\* ws.onmessage
SocketMessage(h, raw) ==
    /\ sockets[h].readyState = "OPEN"
    /\ SetBuckets(IF mounted THEN Dispatch(Buckets, raw) ELSE Buckets)
    /\ UNCHANGED <<workflowId, mounted, socket, isConnected, reconnectTimeoutRef,
                   cleanupSocket, sockets, timers,
                   notifVars, streamVars, extVars>>

\* onclose that retries only a connection that had been established
SocketClose_RetryOnlyIfOpened(h) ==
    /\ sockets[h].readyState \in {"CONNECTING", "OPEN", "CLOSING"}
    /\ FreeTimers # {}
    /\ sockets' = [sockets EXCEPT ![h] = ClosedSocket]
    /\ isConnected' = IF mounted THEN FALSE ELSE isConnected
    /\ socket' = IF mounted THEN null ELSE socket
    /\ IF sockets[h].readyState = "OPEN"
          THEN /\ timers' = Append(timers, [handle |-> NewTimer, stale |-> sockets[h].stale,
                                            delay |-> ReconnectDelay])
               /\ reconnectTimeoutRef' = NewTimer
          ELSE UNCHANGED <<timers, reconnectTimeoutRef>>
    /\ UNCHANGED <<workflowId, mounted, messages, workflowStatus, wsArguments,
                   debateTurns, feedback, cleanupSocket, notifVars, streamVars, extVars>>

\* ws.onerror (logs only) followed by ws.onclose, or ws.onclose alone: the
\* connection attempt failed, the peer or the network closed the socket, or
\* the closing handshake started by close() finished.
SocketClose(h) ==
    /\ sockets[h].readyState \in {"CONNECTING", "OPEN", "CLOSING"}
    /\ FreeTimers # {}
    /\ sockets' = [sockets EXCEPT ![h] = ClosedSocket]
    /\ isConnected' = IF mounted THEN FALSE ELSE isConnected
    /\ socket' = IF mounted THEN null ELSE socket
    /\ timers' = Append(timers, [handle |-> NewTimer, stale |-> sockets[h].stale,
                                 delay |-> ReconnectDelay])
    /\ reconnectTimeoutRef' = NewTimer
    /\ UNCHANGED <<workflowId, mounted, messages, workflowStatus, wsArguments,
                   debateTurns, feedback, cleanupSocket,
                   notifVars, streamVars, extVars>>

\* the reconnect timer fires: connect() of the render that created the socket
\* (its workflowId is never empty, or there would have been no socket)
TimerFire ==
    /\ timers # <<>>
    /\ FreeSockets # {}
    /\ timers' = Tail(timers)
    /\ sockets' = [sockets EXCEPT ![NewSocket] =
                      [readyState |-> "CONNECTING", stale |-> Head(timers).stale]]
    /\ socket' = IF mounted THEN NewSocket ELSE socket
    /\ UNCHANGED <<workflowId, mounted, isConnected, messages, workflowStatus,
                   wsArguments, debateTurns, feedback, reconnectTimeoutRef,
                   cleanupSocket,
                   notifVars, streamVars, extVars>>

\* ------------------------------------------------ sendMessage (the hook)
\* the payloads a consumer passes to sendMessage
OutMessages == {"m"}

SendInit == sent = <<>> /\ sendCalls = 0

\* sendMessage that keeps the payload for the socket it holds while that
\* socket is still connecting
SendGuard_AlsoConnecting(s) ==
    s # null /\ sockets[s].readyState \in {"CONNECTING", "OPEN"}

\* `socket && socket.readyState === WebSocket.OPEN`
SendGuard(s) == s # null /\ sockets[s].readyState = "OPEN"

\* sendMessage(message), the callback of the latest render: its `socket` is
\* the socket state of that render
SendMessage(message) ==
    /\ sendCalls < MaxSendCalls
    /\ sendCalls' = sendCalls + 1
    /\ IF SendGuard(socket)
          THEN /\ Len(sent) < MaxSent
               /\ sent' = Append(sent, [socket |-> socket, message |-> message])
          ELSE sent' = sent
    /\ UNCHANGED <<hookVars, notifVars, streamVars, pageVars, chatVars>>

\* ------------------------------------------- notification channel (main.js)
FreeSocketsB == {h \in SocketHandles : socketsB[h] = "CLOSED" /\ h # websocket}
NewSocketB == CHOOSE h \in FreeSocketsB : \A g \in FreeSocketsB : h <= g

\* handleWebSocketMessage(data), after JSON.parse(event.data).  Neither call is
\* inside a try block: a SyntaxError of JSON.parse, the TypeError of reading
\* null.type and the ReferenceError of the undefined updateCaseList all leave
\* the handler.
HandleNotification(raw) ==
    LET r == JSONparse(raw)
        same == [threw |-> FALSE, analysisTab |-> analysisTab, toasts |-> toasts]
    IN  IF r.threw \/ ~r.data.isObject THEN [same EXCEPT !.threw = TRUE]
        ELSE CASE r.data.type = "analysis_update" ->
                    [same EXCEPT !.analysisTab = r.data.payload]
               [] r.data.type = "case_update" -> [same EXCEPT !.threw = TRUE]
               [] r.data.type = "notification" ->
                    [same EXCEPT !.toasts = Append(toasts, r.data.payload)]
               [] OTHER -> same

\* websocket.onopen: logs only
SocketOpenB(h) ==
    /\ socketsB[h] = "CONNECTING"
    /\ socketsB' = [socketsB EXCEPT ![h] = "OPEN"]
    /\ UNCHANGED <<extVars, streamVars, hookVars, websocket, timersB, analysisTab, toasts, uncaughtErrors>>

\* websocket.onmessage
SocketMessageB(h, raw) ==
    LET out == HandleNotification(raw) IN
    /\ socketsB[h] = "OPEN"
    /\ out.threw => uncaughtErrors < MaxUncaught
    /\ Len(out.toasts) <= MaxToasts
    /\ analysisTab' = out.analysisTab
    /\ toasts' = out.toasts
    /\ uncaughtErrors' = IF out.threw THEN uncaughtErrors + 1 ELSE uncaughtErrors
    /\ UNCHANGED <<extVars, streamVars, hookVars, websocket, socketsB, timersB>>

\* onclose whose delay grows with the attempt
SocketCloseB_Backoff(h) ==
    /\ socketsB[h] \in {"CONNECTING", "OPEN"}
    /\ socketsB' = [socketsB EXCEPT ![h] = "CLOSED"]
    /\ timersB' = Append(timersB, [delay |-> ReconnectDelayB * h])
    /\ UNCHANGED <<extVars, streamVars, hookVars, websocket, analysisTab, toasts, uncaughtErrors>>

\* websocket.onerror (logs only) and websocket.onclose
SocketCloseB(h) ==
    /\ socketsB[h] \in {"CONNECTING", "OPEN"}
    /\ socketsB' = [socketsB EXCEPT ![h] = "CLOSED"]
    /\ timersB' = Append(timersB, [delay |-> ReconnectDelayB])
    /\ UNCHANGED <<extVars, streamVars, hookVars, websocket, analysisTab, toasts, uncaughtErrors>>

\* the timer of onclose fires: initializeWebSocket()
TimerFireB ==
    /\ timersB # <<>>
    /\ FreeSocketsB # {}
    /\ timersB' = Tail(timersB)
    /\ socketsB' = [socketsB EXCEPT ![NewSocketB] = "CONNECTING"]
    /\ websocket' = NewSocketB
    /\ UNCHANGED <<extVars, streamVars, hookVars, analysisTab, toasts, uncaughtErrors>>

\* showToast's removal timer fires for the oldest toast
ToastExpire ==
    /\ toasts # <<>>
    /\ toasts' = Tail(toasts)
    /\ UNCHANGED <<extVars, streamVars, hookVars, websocket, socketsB, timersB, analysisTab, uncaughtErrors>>

\* ------------------------------------------------ reply stream (chat.js)
\* The wire text is a sequence of characters; the fixed marker and the parts
\* of a JSON object are kept as single characters of that text.
NL == "\n"
Marker == <<"data", ": ">>
Deltas == {"a", "b"}

ContentLine(d) == Marker \o <<"{", "content", d, "}">>
AnalysisLine == Marker \o <<"{", "analysis", "}">>
CompleteLine == Marker \o <<"{", "complete", "}">>
\* a marked line whose JSON is cut short
MalformedLine == Marker \o <<"{", "content", "a">>
BlankLine == <<>>

Lines == {ContentLine(d) : d \in Deltas}
            \cup {AnalysisLine, CompleteLine, MalformedLine, BlankLine}
Bodies == UNION {[1..n -> Lines] : n \in 1..MaxLines}
\* a reply whose server keeps sending content after its complete chunk
LateContentBodies == {<<ContentLine("a"), CompleteLine, ContentLine("b")>>}

\* the response body as sent: every line followed by a newline
RECURSIVE Wire(_)
Wire(b) == IF b = <<>> THEN <<>> ELSE Head(b) \o <<NL>> \o Wire(Tail(b))

\* chunk.split('\n')
RECURSIVE Split(_)
Split(text) ==
    IF text = <<>> THEN << <<>> >>
    ELSE LET rest == Split(Tail(text)) IN
         IF Head(text) = NL THEN << <<>> >> \o rest
         ELSE << <<Head(text)>> \o Head(rest) >> \o Tail(rest)

\* line.startsWith('data: ')
StartsWithMarker(line) == Len(line) >= 2 /\ SubSeq(line, 1, 2) = Marker

\* JSON.parse(line.slice(6)): an object needs both braces and a known shape
NoData == [threw |-> TRUE, isObject |-> FALSE, type |-> "", content |-> ""]
ParseChunk(text) ==
    IF text = <<"null">> THEN [NoData EXCEPT !.threw = FALSE]
    ELSE IF Len(text) = 4 /\ text[1] = "{" /\ text[2] = "content" /\ text[3] \in Deltas
              /\ text[4] = "}"
        THEN [threw |-> FALSE, isObject |-> TRUE, type |-> "content", content |-> text[3]]
    ELSE IF Len(text) = 3 /\ text[1] = "{" /\ text[2] \in {"analysis", "complete"}
              /\ text[3] = "}"
        THEN [threw |-> FALSE, isObject |-> TRUE, type |-> text[2], content |-> ""]
    ELSE NoData

\* document.getElementById(id): the first element with that id, 0 if none
GetElementById(d, id) ==
    IF \E i \in 1..Len(d) : d[i].id = id
        THEN CHOOSE i \in 1..Len(d) : d[i].id = id /\ \A j \in 1..(i - 1) : d[j].id # id
        ELSE 0

\* 'msg_' + Date.now(): the id is the time of the call, in ms
MessageId(now) == now

\* what the read loop works on, as one record
StreamState ==
    [acc |-> accumulatedContent, id |-> assistantMessageId, dom |-> dom,
     msgs |-> chatMessages, analysisTab |-> analysisTab, events |-> streamEvents,
     escaped |-> FALSE, now |-> clock]

\* accumulatedContent = data.content in place of +=
Accumulate_Overwrite(acc, delta) == <<delta>>

\* accumulatedContent += data.content
Accumulate(acc, delta) == Append(acc, delta)

\* a catch block that rethrows
OnStreamParseError_Rethrow(st) == [st EXCEPT !.escaped = TRUE]

\* catch (e) { console.error('Error parsing stream data:', e) }
OnStreamParseError(st) == st

\* updateStreamingMessage(messageId, content)
UpdateStreamingMessage(st, id, content) ==
    LET i == GetElementById(st.dom, id) IN
    IF i = 0 THEN st
    ELSE [st EXCEPT !.dom[i].text = content, !.dom[i].cursor = hasMarked]

\* finalizeStreamingMessage(messageId); ChatState.messages.find throws when
\* the array does not exist, after the element was already updated
FinalizeStreamingMessage(st, id) ==
    LET i == GetElementById(st.dom, id) IN
    IF i = 0 THEN st
    ELSE LET st1 == [st EXCEPT !.dom[i].streaming = FALSE, !.dom[i].cursor = FALSE]
             m == GetElementById(st.msgs, id)
         IN  IF ~chatDefined THEN OnStreamParseError(st1)
             ELSE IF m = 0 THEN st1
             ELSE [st1 EXCEPT !.msgs[m].isStreaming = FALSE]

\* the content branch: accumulate, create the message on the first chunk
\* (addAssistantMessage('', true)), then render.  addAssistantMessage appends
\* the element and then pushes to ChatState.messages; when that array does
\* not exist the push throws before the id is returned.
OnContent(st, delta) ==
    LET st1 == [st EXCEPT !.acc = Accumulate(st.acc, delta),
                          !.events = Append(st.events, "content")]
        newId == MessageId(st.now)
        st2 == [st1 EXCEPT !.dom = Append(st.dom,
                              [id |-> newId, type |-> "assistant", streaming |-> TRUE,
                               cursor |-> FALSE, text |-> <<>>])]
        st3 == [st2 EXCEPT !.msgs = Append(st.msgs,
                              [id |-> newId, type |-> "assistant", content |-> <<>>,
                               isStreaming |-> TRUE]),
                           !.id = newId]
    IN  IF st.id # null THEN UpdateStreamingMessage(st1, st.id, st1.acc)
        ELSE IF ~chatDefined THEN OnStreamParseError(st2)
        ELSE UpdateStreamingMessage(st3, newId, st3.acc)

\* a loop body whose analysis branch also appends to the reply text
ProcessLine_AnalysisAccumulates(st, line) ==
    IF ~StartsWithMarker(line) THEN st
    ELSE LET data == ParseChunk(SubSeq(line, 3, Len(line))) IN
         IF data.threw \/ ~data.isObject THEN OnStreamParseError(st)
         ELSE CASE data.type = "content" -> OnContent(st, data.content)
                [] data.type = "analysis" ->
                     [OnContent(st, "a") EXCEPT !.analysisTab = "stream",
                                                !.events = Append(st.events, "analysis")]
                [] data.type = "complete" ->
                     FinalizeStreamingMessage(
                         [st EXCEPT !.events = Append(st.events, "complete")], st.id)
                [] OTHER -> st

\* the body of `for (const line of lines)`
ProcessLine(st, line) ==
    IF ~StartsWithMarker(line) THEN st
    ELSE LET data == ParseChunk(SubSeq(line, 3, Len(line))) IN
         IF data.threw \/ ~data.isObject THEN OnStreamParseError(st)
         ELSE CASE data.type = "content" -> OnContent(st, data.content)
                [] data.type = "analysis" ->
                     [st EXCEPT !.analysisTab = "stream",
                                !.events = Append(st.events, "analysis")]
                [] data.type = "complete" ->
                     FinalizeStreamingMessage(
                         [st EXCEPT !.events = Append(st.events, "complete")], st.id)
                [] OTHER -> st

\* one pass of the while loop over the lines of a chunk; an exception that
\* leaves the try block ends the loop
RECURSIVE ProcessLines(_, _)
ProcessLines(st, lines) ==
    IF lines = <<>> \/ st.escaped THEN st
    ELSE ProcessLines(ProcessLine(st, Head(lines)), Tail(lines))

Consume(st, chunk) == ProcessLines(st, Split(chunk))

\* offset of line i in the wire text, and the lines a boundary at p falls in
RECURSIVE LineStart(_, _)
LineStart(b, i) == IF i = 1 THEN 0 ELSE LineStart(b, i - 1) + Len(b[i - 1]) + 1
TornBy(b, p) ==
    {i \in 1..Len(b) : LineStart(b, i) < p /\ p < LineStart(b, i) + Len(b[i])}

StreamIdle ==
    /\ body = <<>>
    /\ pos = 0
    /\ phase = "idle"
    /\ streamError = "none"
    /\ accumulatedContent = <<>>
    /\ assistantMessageId = null
    /\ dom = <<>>
    /\ chatDefined = FALSE
    /\ chatMessages = <<>>
    /\ hasMarked = FALSE
    /\ streamEvents = <<>>
    /\ torn = {}

\* sendStreamingMessage has issued its fetch.  The server's body, whether the
\* page defined ChatState.messages (chat.js itself does not) and whether the
\* markdown library is loaded are the inputs; the library is only consulted
\* for a message that has an id, which needs the array.
StreamStart ==
    /\ body \in Bodies \cup LateContentBodies
    /\ pos = 0
    /\ phase = "fetching"
    /\ streamError = "none"
    /\ accumulatedContent = <<>>
    /\ assistantMessageId = null
    /\ dom = <<>>
    /\ chatDefined \in BOOLEAN
    /\ chatMessages = <<>>
    /\ hasMarked \in (IF chatDefined THEN BOOLEAN ELSE {FALSE})
    /\ streamEvents = <<>>
    /\ torn = {}

streamFrame == <<hookVars, websocket, socketsB, timersB, toasts, uncaughtErrors, extVars>>

\* fetch resolved with response.ok
ResponseOk ==
    /\ phase = "fetching"
    /\ phase' = "reading"
    /\ UNCHANGED <<body, pos, streamError, accumulatedContent, assistantMessageId, dom,
                   chatDefined, chatMessages, hasMarked, streamEvents, torn, analysisTab,
                   streamFrame>>

\* createMessageElement(type, content) for a message that gets no id
PlainElement(type, content) ==
    [id |-> null, type |-> type, streaming |-> FALSE, cursor |-> FALSE, text |-> content]
\* addErrorMessage('发送消息时出现错误，请重试。')
ErrorText == <<"send-error">>
AddErrorMessage(d) == Append(d, PlainElement("error", ErrorText))

\* if (!response.ok) throw new Error('Stream request failed'): the error
\* leaves sendStreamingMessage and is caught by its caller,
\* sendEnhancedMessage, which appends an error message
ResponseNotOk ==
    /\ phase = "fetching"
    /\ phase' = "failed"
    /\ streamError' = "request"
    /\ dom' = AddErrorMessage(dom)
    /\ UNCHANGED <<body, pos, accumulatedContent, assistantMessageId,
                   chatDefined, chatMessages, hasMarked, streamEvents, torn, analysisTab,
                   streamFrame>>

\* reader.read() resolves with the next k characters of the body, wherever
\* the transport cut them; the chunk is decoded, split and processed
ReadChunk(k) ==
    LET wire == Wire(body)
        out == Consume(StreamState, SubSeq(wire, pos + 1, pos + k))
    IN  /\ phase = "reading"
        /\ pos + k <= Len(wire)
        /\ pos' = pos + k
        /\ torn' = IF pos + k < Len(wire) THEN torn \cup TornBy(body, pos + k) ELSE torn
        /\ accumulatedContent' = out.acc
        /\ assistantMessageId' = out.id
        /\ dom' = out.dom
        /\ chatMessages' = out.msgs
        /\ analysisTab' = out.analysisTab
        /\ streamEvents' = out.events
        /\ phase' = IF out.escaped THEN "failed" ELSE "reading"
        /\ streamError' = IF out.escaped THEN "parse" ELSE streamError
        /\ UNCHANGED <<body, chatDefined, hasMarked, streamFrame>>

\* reader.read() resolves with done: the loop and the function end
ReadDone ==
    /\ phase = "reading"
    /\ pos = Len(Wire(body))
    /\ phase' = "done"
    /\ UNCHANGED <<body, pos, streamError, accumulatedContent, assistantMessageId, dom,
                   chatDefined, chatMessages, hasMarked, streamEvents, torn, analysisTab,
                   streamFrame>>

\* ------------------------------------------- Home and its fallback (page.tsx)
\* The text of the input box is a sequence of words; a word is a phrase the
\* fixture lookup searches for (in either case), white space, or other text.
Vocabulary ==
    {"other", "texting while walking", "Texting While Walking",
     "personal injury", "non-compete", "California"}
\* blank inputs, one word, a word inside other text, and two phrases at once
UserInputs ==
    {<<>>, <<" ">>} \cup {<<w>> : w \in Vocabulary}
        \cup {<<" ", "other", w>> : w \in Vocabulary}
        \cup {<<"personal injury", "California">>}

\* String.prototype.toLowerCase
ToLowerCase(text) ==
    [i \in 1..Len(text) |->
        CASE text[i] = "Texting While Walking" -> "texting while walking"
          [] text[i] = "California" -> "california"
          [] OTHER -> text[i]]
\* String.prototype.includes, for one of the searched phrases
Includes(text, phrase) == \E i \in 1..Len(text) : text[i] = phrase
\* String.prototype.trim
RECURSIVE TrimStart(_)
TrimStart(text) ==
    IF text # <<>> /\ Head(text) = " " THEN TrimStart(Tail(text)) ELSE text
RECURSIVE TrimEnd(_)
TrimEnd(text) ==
    IF text # <<>> /\ text[Len(text)] = " "
        THEN TrimEnd(SubSeq(text, 1, Len(text) - 1)) ELSE text
Trim(text) == TrimEnd(TrimStart(text))

\* the fixture events of mockData.ts, in the shape of the channel's frames
MockEvent(type, name) == [isObject |-> TRUE, type |-> type, payload |-> name]
mockResponses ==
    [single |->
        [personalInjury |->
            [arguments |-> <<MockEvent("argument_generated", "personalInjury.arguments[0]"),
                             MockEvent("argument_generated", "personalInjury.arguments[1]")>>,
             turns |-> <<>>,
             feedback |-> MockEvent("feedback_ready", "personalInjury.feedback")]],
     debate |->
        [nonCompete |->
            [arguments |-> <<>>,
             turns |-> <<MockEvent("debate_turn", "nonCompete.turns[0]"),
                         MockEvent("debate_turn", "nonCompete.turns[1]"),
                         MockEvent("debate_turn", "nonCompete.turns[2]")>>,
             feedback |-> MockEvent("feedback_ready", "nonCompete.feedback")]]]
DefaultSingle ==
    [arguments |-> <<MockEvent("argument_generated", "default.arguments[0]")>>,
     turns |-> <<>>,
     feedback |-> MockEvent("feedback_ready", "default.single.feedback")]
DefaultDebate ==
    [arguments |-> <<>>,
     turns |-> <<MockEvent("debate_turn", "default.turns[0]")>>,
     feedback |-> MockEvent("feedback_ready", "default.debate.feedback")]

\* getMockResponse that looks for the words "personal injury" only
getMockResponse_OnlyPersonalInjury(m, text) ==
    LET lower == ToLowerCase(text)
        isPersonalInjury == Includes(lower, "personal injury")
        isNonCompete == Includes(lower, "non-compete") \/ Includes(lower, "california")
    IN  IF m = "single" /\ isPersonalInjury THEN mockResponses.single.personalInjury
        ELSE IF m = "debate" /\ isNonCompete THEN mockResponses.debate.nonCompete
        ELSE IF m = "single" THEN DefaultSingle
        ELSE DefaultDebate

\* getMockResponse that compares the input as typed, without toLowerCase
getMockResponse_CaseSensitive(m, text) ==
    LET isPersonalInjury == Includes(text, "personal injury")
                                \/ Includes(text, "texting while walking")
        isNonCompete == Includes(text, "non-compete") \/ Includes(text, "california")
    IN  IF m = "single" /\ isPersonalInjury THEN mockResponses.single.personalInjury
        ELSE IF m = "debate" /\ isNonCompete THEN mockResponses.debate.nonCompete
        ELSE IF m = "single" THEN DefaultSingle
        ELSE DefaultDebate

\* getMockResponse(mode, userInput)
getMockResponse(m, text) ==
    LET lower == ToLowerCase(text)
        isPersonalInjury == Includes(lower, "personal injury")
                                \/ Includes(lower, "texting while walking")
        isNonCompete == Includes(lower, "non-compete") \/ Includes(lower, "california")
    IN  IF m = "single" /\ isPersonalInjury THEN mockResponses.single.personalInjury
        ELSE IF m = "debate" /\ isNonCompete THEN mockResponses.debate.nonCompete
        ELSE IF m = "single" THEN DefaultSingle
        ELSE DefaultDebate

\* spacing of the simulated events, in ms
SingleStep == 1000
DebateStep == 2000

SimTimer(delay, setter, event) == [delay |-> delay, setter |-> setter, event |-> event]

\* a catch block that shows the feedback one interval after the start
Schedule_FeedbackAfterOneStep(m, mockData) ==
    IF m = "single"
        THEN [i \in 1..Len(mockData.arguments) |->
                 SimTimer(SingleStep * i, "setMockArguments", mockData.arguments[i])]
             \o <<SimTimer(SingleStep, "setMockFeedback", mockData.feedback)>>
        ELSE [i \in 1..Len(mockData.turns) |->
                 SimTimer(DebateStep * i, "setMockDebateTurns", mockData.turns[i])]
             \o <<SimTimer(DebateStep, "setMockFeedback", mockData.feedback)>>

\* the setTimeout calls of the catch block, in the order they are made
Schedule(m, mockData) ==
    IF m = "single"
        THEN [i \in 1..Len(mockData.arguments) |->
                 SimTimer(SingleStep * i, "setMockArguments", mockData.arguments[i])]
             \o <<SimTimer(SingleStep * (Len(mockData.arguments) + 1),
                           "setMockFeedback", mockData.feedback)>>
        ELSE [i \in 1..Len(mockData.turns) |->
                 SimTimer(DebateStep * i, "setMockDebateTurns", mockData.turns[i])]
             \o <<SimTimer(DebateStep * (Len(mockData.turns) + 1),
                           "setMockFeedback", mockData.feedback)>>

\* the pending timer the event loop runs next: the least delay, the earliest
\* call among equal delays
NextDue(ts) ==
    CHOOSE i \in 1..Len(ts) :
        \A j \in 1..Len(ts) :
            ts[i].delay < ts[j].delay \/ (ts[i].delay = ts[j].delay /\ i <= j)
RemoveAt(ts, i) == SubSeq(ts, 1, i - 1) \o SubSeq(ts, i + 1, Len(ts))

PageInit ==
    /\ mode = "single"
    /\ userInput = <<>>
    /\ workflowStarted = FALSE
    /\ useMockData = FALSE
    /\ mockArguments = <<>>
    /\ mockDebateTurns = <<>>
    /\ mockFeedback = NoStatus
    /\ startPhase = "idle"
    /\ startMode = "single"
    /\ simTimers = <<>>

\* the id Home passes to the hook
HookArgument(started, mock) == IF started /\ ~mock THEN MOCK_WORKFLOW_ID ELSE undefined

\* a click on one of the two mode buttons (always rendered)
SetMode(m) ==
    /\ mounted
    /\ m # mode
    /\ mode' = m
    /\ UNCHANGED <<userInput, workflowStarted, useMockData, mockArguments, mockDebateTurns,
                   mockFeedback, startPhase, startMode, simTimers,
                   hookVars, notifVars, streamVars, sendVars, chatVars>>

\* typing in the input box, rendered while the workflow has not started
SetUserInput(text) ==
    /\ mounted
    /\ ~workflowStarted
    /\ text # userInput
    /\ userInput' = text
    /\ UNCHANGED <<mode, workflowStarted, useMockData, mockArguments, mockDebateTurns,
                   mockFeedback, startPhase, startMode, simTimers,
                   hookVars, notifVars, streamVars, sendVars, chatVars>>

\* a click on the start button (rendered while the workflow has not started,
\* disabled while the input is blank): handleStartWorkflow up to its first
\* await, then the render that passes the id to the hook
HandleStartWorkflow ==
    /\ mounted
    /\ ~workflowStarted
    /\ Trim(userInput) # <<>>
    /\ workflowStarted' = TRUE
    /\ useMockData' = FALSE
    /\ mockArguments' = <<>>
    /\ mockDebateTurns' = <<>>
    /\ mockFeedback' = NoStatus
    /\ startPhase' = "creating"
    /\ startMode' = mode
    /\ IdChangeCore(HookArgument(TRUE, FALSE))
    /\ UNCHANGED <<mode, userInput, simTimers, chatVars>>

\* POST /api/workflows answered with response.ok: the execute request is sent
CreateOk ==
    /\ startPhase = "creating"
    /\ startPhase' = "executing"
    /\ UNCHANGED <<mode, userInput, workflowStarted, useMockData, mockArguments,
                   mockDebateTurns, mockFeedback, startMode, simTimers,
                   hookVars, notifVars, streamVars, sendVars, chatVars>>

\* the execute request was answered, with executeResponse.ok or without:
\* both branches only log, and handleStartWorkflow returns
ExecuteAnswered(ok) ==
    /\ startPhase = "executing"
    /\ startPhase' = IF ok THEN "started" ELSE "executeFailed"
    /\ UNCHANGED <<mode, userInput, workflowStarted, useMockData, mockArguments,
                   mockDebateTurns, mockFeedback, startMode, simTimers,
                   hookVars, notifVars, streamVars, sendVars, chatVars>>

\* the catch block: a fetch rejected (either request), the create request
\* was answered with a non-success status, or response.json() rejected.
\* setUseMockData(true) empties the hook's id
\* (nothing happens to state once unmounted); the timers are scheduled from
\* the mode and input the call closed over.
Fallback ==
    /\ startPhase \in {"creating", "executing"}
    /\ startPhase' = "fallback"
    /\ simTimers' = Schedule(startMode, getMockResponse(startMode, userInput))
    /\ IF mounted
          THEN /\ useMockData' = TRUE
               /\ IdChangeCore(HookArgument(workflowStarted, TRUE))
          ELSE UNCHANGED <<useMockData, hookVars, notifVars, streamVars, sendVars>>
    /\ UNCHANGED <<mode, userInput, workflowStarted, mockArguments, mockDebateTurns,
                   mockFeedback, startMode, chatVars>>

\* a timer of the fallback fires and calls its state setter
SimTimerFire ==
    /\ simTimers # <<>>
    /\ LET i == NextDue(simTimers)
           t == simTimers[i]
       IN  /\ simTimers' = RemoveAt(simTimers, i)
           /\ mockArguments' =
                 IF mounted /\ t.setter = "setMockArguments"
                     THEN Append(mockArguments, t.event) ELSE mockArguments
           /\ mockDebateTurns' =
                 IF mounted /\ t.setter = "setMockDebateTurns"
                     THEN Append(mockDebateTurns, t.event) ELSE mockDebateTurns
           /\ mockFeedback' =
                 IF mounted /\ t.setter = "setMockFeedback" THEN t.event ELSE mockFeedback
    /\ UNCHANGED <<mode, userInput, workflowStarted, useMockData, startPhase, startMode,
                   hookVars, notifVars, streamVars, sendVars, chatVars>>

\* what Home renders
actualArguments == IF useMockData THEN mockArguments ELSE wsArguments
actualDebateTurns == IF useMockData THEN mockDebateTurns ELSE debateTurns
actualFeedback == IF useMockData THEN mockFeedback ELSE feedback
\* the Feedback Display card reads the hook's feedback
displayedFeedback == feedback

\* ------------------------------------- the chat (main.js, chat.js callers)
\* messages per conversation in a run
MaxChat == 2
\* requests of main.js awaiting their answer at once
MaxPending == 1
\* the last millisecond of a run, the first being 1
MaxClock == 3
\* getConversationContext(limit = 10)
ContextLimit == 10

UserTexts == {<<"hi">>}
ReplyText == <<"reply">>
\* '抱歉，发送消息时出现错误。请稍后重试。'
ApologyText == <<"apology">>
\* the bodies /api/chat/stream answers with in a conversation
ChatBodies == {<<ContentLine("a"), CompleteLine>>, <<AnalysisLine, ContentLine("b")>>}

\* the locals of a call of sendStreamingMessage that has not been made
NoSession ==
    [body |-> <<>>, pos |-> 0, phase |-> "idle", streamError |-> "none",
     acc |-> <<>>, id |-> null, events |-> <<>>]

ChatInit ==
    /\ appMessages = <<>>
    /\ appPending = 0
    /\ lastContext = <<>>
    /\ clock = 1
    /\ other = NoSession

\* the page as loaded: it may or may not have given ChatState a messages
\* array and loaded the markdown library
ChatIdle ==
    /\ body = <<>>
    /\ pos = 0
    /\ phase = "idle"
    /\ streamError = "none"
    /\ accumulatedContent = <<>>
    /\ assistantMessageId = null
    /\ dom = <<>>
    /\ chatDefined \in BOOLEAN
    /\ chatMessages = <<>>
    /\ hasMarked \in (IF chatDefined THEN BOOLEAN ELSE {FALSE})
    /\ streamEvents = <<>>
    /\ torn = {}

\* addMessage(type, content) of main.js
AddMessage(type, content) ==
    /\ dom' = Append(dom, PlainElement(type, content))
    /\ appMessages' = Append(appMessages, [type |-> type, content |-> content])

\* sendMessage() of main.js up to its await: the user message is added and
\* the request sent
AppSendMessage(text) ==
    /\ AddMessage("user", text)
    /\ appPending' = appPending + 1
    /\ UNCHANGED <<lastContext, concVars, hookVars, notifVars, sendVars, pageVars,
                   body, pos, phase, streamError, accumulatedContent, assistantMessageId,
                   chatDefined, chatMessages, hasMarked, streamEvents, torn>>

\* /api/chat answered with response.ok: the reply is added
AppChatAnswered ==
    /\ appPending > 0
    /\ appPending' = appPending - 1
    /\ AddMessage("assistant", ReplyText)
    /\ UNCHANGED <<lastContext, concVars, hookVars, notifVars, sendVars, pageVars,
                   body, pos, phase, streamError, accumulatedContent, assistantMessageId,
                   chatDefined, chatMessages, hasMarked, streamEvents, torn>>

\* /api/chat answered with a non-success status, or fetch rejected: the
\* catch block adds an apology as an assistant message
AppChatFailed ==
    /\ appPending > 0
    /\ appPending' = appPending - 1
    /\ AddMessage("assistant", ApologyText)
    /\ UNCHANGED <<lastContext, concVars, hookVars, notifVars, sendVars, pageVars,
                   body, pos, phase, streamError, accumulatedContent, assistantMessageId,
                   chatDefined, chatMessages, hasMarked, streamEvents, torn>>

\* getConversationContext(): the last ContextLimit stored messages
ConversationContext(msgs) ==
    LET from == IF Len(msgs) > ContextLimit THEN Len(msgs) - ContextLimit + 1 ELSE 1
        last == SubSeq(msgs, from, Len(msgs))
    IN  [i \in 1..Len(last) |->
            [role |-> IF last[i].type = "user" THEN "user" ELSE "assistant",
             content |-> last[i].content]]

\* sendEnhancedMessage(message) up to its await, in a browser that supports
\* streaming: addUserMessage appends the element and pushes to
\* ChatState.messages (a TypeError that ends the call when the array does
\* not exist), the context is read, and sendStreamingMessage issues its fetch
SendEnhancedMessage(message) ==
    LET id == MessageId(clock) IN
    /\ phase \in {"idle", "done", "failed"}
    /\ dom' = Append(dom, [PlainElement("user", message) EXCEPT !.id = id])
    /\ IF chatDefined
          THEN /\ chatMessages' = Append(chatMessages,
                        [id |-> id, type |-> "user", content |-> message,
                         isStreaming |-> FALSE])
               /\ lastContext' = ConversationContext(chatMessages')
               /\ body' \in ChatBodies
               /\ pos' = 0
               /\ phase' = "fetching"
               /\ streamError' = "none"
               /\ accumulatedContent' = <<>>
               /\ assistantMessageId' = null
               /\ streamEvents' = <<>>
               /\ torn' = {}
          ELSE UNCHANGED <<chatMessages, lastContext, body, pos, phase, streamError,
                           accumulatedContent, assistantMessageId, streamEvents, torn>>
    /\ UNCHANGED <<chatDefined, hasMarked, appMessages, appPending, concVars,
                   hookVars, notifVars, sendVars, pageVars>>

\* clearChatHistory(), confirmed by the user: the message list is replaced by
\* the welcome block, AppState.messages emptied, a toast shown
ClearChatHistory ==
    /\ Len(toasts) < MaxToasts
    /\ dom' = <<>>
    /\ appMessages' = <<>>
    /\ toasts' = Append(toasts, "cleared")
    /\ UNCHANGED <<appPending, lastContext, concVars, hookVars, sendVars, pageVars,
                   websocket, socketsB, timersB, analysisTab, uncaughtErrors,
                   body, pos, phase, streamError, accumulatedContent, assistantMessageId,
                   chatDefined, chatMessages, hasMarked, streamEvents, torn>>

\* a millisecond passes between two handlers
Tick ==
    /\ clock < MaxClock
    /\ clock' = clock + 1
    /\ UNCHANGED <<other, appMessages, appPending, lastContext,
                   hookVars, notifVars, streamVars, sendVars, pageVars>>

\* what the read loop of the second call works on
OtherState ==
    [acc |-> other.acc, id |-> other.id, dom |-> dom, msgs |-> chatMessages,
     analysisTab |-> analysisTab, events |-> other.events, escaped |-> FALSE,
     now |-> clock]

\* what the second call leaves alone
otherFrame ==
    <<body, pos, phase, streamError, accumulatedContent, assistantMessageId,
      chatDefined, hasMarked, streamEvents, torn, clock, appMessages, appPending,
      hookVars, websocket, socketsB, timersB, toasts, uncaughtErrors, sendVars, pageVars>>

\* sendEnhancedMessage(message) called again while the stream of the first
\* call is in flight (nothing in chat.js prevents it), up to the await of
\* its fetch
SendEnhancedMessageOther(message) ==
    LET id == MessageId(clock) IN
    /\ phase \in {"fetching", "reading"}
    /\ other.phase = "idle"
    /\ dom' = Append(dom, [PlainElement("user", message) EXCEPT !.id = id])
    /\ chatDefined
    /\ chatMessages' = Append(chatMessages,
             [id |-> id, type |-> "user", content |-> message, isStreaming |-> FALSE])
    /\ lastContext' = ConversationContext(chatMessages')
    /\ \E b \in ChatBodies : other' = [NoSession EXCEPT !.body = b, !.phase = "fetching"]
    /\ UNCHANGED <<analysisTab, otherFrame>>

\* the second call's fetch resolved with response.ok
ResponseOkOther ==
    /\ other.phase = "fetching"
    /\ other' = [other EXCEPT !.phase = "reading"]
    /\ UNCHANGED <<dom, chatMessages, lastContext, analysisTab, otherFrame>>

\* the second call's fetch resolved with a non-success status: its caller's
\* catch appends an error message
ResponseNotOkOther ==
    /\ other.phase = "fetching"
    /\ other' = [other EXCEPT !.phase = "failed", !.streamError = "request"]
    /\ dom' = AddErrorMessage(dom)
    /\ UNCHANGED <<chatMessages, lastContext, analysisTab, otherFrame>>

\* reader.read() of the second call resolves with the next k characters
ReadChunkOther(k) ==
    LET wire == Wire(other.body)
        out == Consume(OtherState, SubSeq(wire, other.pos + 1, other.pos + k))
    IN  /\ other.phase = "reading"
        /\ other.pos + k <= Len(wire)
        /\ other' = [other EXCEPT !.pos = other.pos + k,
                                  !.acc = out.acc,
                                  !.id = out.id,
                                  !.events = out.events,
                                  !.phase = IF out.escaped THEN "failed" ELSE "reading",
                                  !.streamError = IF out.escaped THEN "parse"
                                                                 ELSE other.streamError]
        /\ dom' = out.dom
        /\ chatMessages' = out.msgs
        /\ analysisTab' = out.analysisTab
        /\ UNCHANGED <<lastContext, otherFrame>>

\* reader.read() of the second call resolves with done
ReadDoneOther ==
    /\ other.phase = "reading"
    /\ other.pos = Len(Wire(other.body))
    /\ other' = [other EXCEPT !.phase = "done"]
    /\ UNCHANGED <<dom, chatMessages, lastContext, analysisTab, otherFrame>>

\* ---------------------------------------------------------- specifications
\* the consumer opens the workflow channel / tears it down
Open == IdChange(MOCK_WORKFLOW_ID)
Teardown == IdChange(undefined) \/ Unmount

SocketEvents ==
    \/ \E h \in SocketHandles : SocketOpen(h)
    \/ \E h \in SocketHandles : SocketClose(h)
    \/ TimerFire

SocketEventsB ==
    \/ \E h \in SocketHandles : SocketOpenB(h)
    \/ \E h \in SocketHandles : SocketCloseB(h)
    \/ TimerFireB

\* the workflow channel under every interleaving of open, teardown, socket
\* events, timers and inbound frames
Next ==
    \/ Open
    \/ Teardown
    \/ SocketEvents
    \/ \E h \in SocketHandles, raw \in SampleMessages :
          Len(messages) < MaxLifecycleLog /\ SocketMessage(h, raw)

ExtInit == SendInit /\ PageInit /\ ChatInit

Init == HookInit /\ NotifInit /\ StreamIdle /\ ExtInit

Spec == Init /\ [][Next]_vars

\* the workflow channel's router: a channel that is opened and never torn
\* down, with every frame shape
RouterNext ==
    \/ Open
    \/ SocketEvents
    \/ \E h \in SocketHandles, raw \in RawMessages :
          Len(messages) < MaxLog /\ SocketMessage(h, raw)

RouterSpec == Init /\ [][RouterNext]_vars

\* the notification channel
NotifNext ==
    \/ SocketEventsB
    \/ \E h \in SocketHandles, raw \in RawNotifications : SocketMessageB(h, raw)
    \/ ToastExpire

NotifSpec == Init /\ [][NotifNext]_vars

\* one streamed reply, for every body and every way the transport cuts it
\* (the reply creates one message, whose id is the time of its first content
\* chunk whatever that time is)
StreamNext ==
    \/ ResponseOk
    \/ ResponseNotOk
    \/ \E k \in 1..Len(Wire(body)) : ReadChunk(k)
    \/ ReadDone

StreamInit == HookInit /\ NotifInit /\ StreamStart /\ ExtInit
StreamSpec == StreamInit /\ [][StreamNext]_vars

\* the workflow channel with a consumer that calls sendMessage at any time
SendFrames ==
    {[wellFormed |-> TRUE, value |-> v] : v \in JsonObjects({"argument_generated"}, {"p"})}
SendNext ==
    \/ Open
    \/ Teardown
    \/ SocketEvents
    \/ \E h \in SocketHandles, raw \in SendFrames :
          Len(messages) < MaxLifecycleLog /\ SocketMessage(h, raw)
    \/ \E m \in OutMessages : SendMessage(m)

SendSpec == Init /\ [][SendNext]_vars

\* Home: the user picks a mode, types, starts the workflow once and may
\* leave the page at any time; the start request succeeds or fails, the
\* socket and the timers do what they do
PageFrames == RawOf(JsonObjects({"argument_generated", "feedback_ready"}, {"p"}))
PageNext ==
    \/ \E m \in {"single", "debate"} : SetMode(m)
    \/ \E text \in UserInputs : SetUserInput(text)
    \/ HandleStartWorkflow
    \/ CreateOk
    \/ \E ok \in BOOLEAN : ExecuteAnswered(ok)
    \/ Fallback
    \/ SimTimerFire
    \/ Unmount
    \/ SocketEvents
    \/ \E h \in SocketHandles, raw \in PageFrames :
          Len(messages) < MaxLifecycleLog /\ SocketMessage(h, raw)

PageSpec == Init /\ [][PageNext]_vars

\* a conversation: messages sent through main.js and through chat.js, the
\* answers, and the user clearing the history at any time
ChatNext ==
    \/ \E text \in UserTexts :
          Len(dom) < MaxChat /\ appPending < MaxPending /\ AppSendMessage(text)
    \/ Len(dom) < MaxChat + 1 /\ AppChatAnswered
    \/ Len(dom) < MaxChat + 1 /\ AppChatFailed
    \/ \E text \in UserTexts :
          Len(dom) < MaxChat /\ Len(chatMessages) < MaxChat /\ SendEnhancedMessage(text)
    \/ ResponseOk
    \/ ResponseNotOk
    \/ \E k \in 1..Len(Wire(body)) : ReadChunk(k)
    \/ ReadDone
    \/ ClearChatHistory
    \/ ToastExpire
    \/ Tick

ChatStart == HookInit /\ NotifInit /\ ChatIdle /\ ExtInit
ChatSpec == ChatStart /\ [][ChatNext]_vars

\* two replies streamed at the same time: a second message is sent while
\* the first reply is in flight, and the reads of the two bodies interleave
ConcNext ==
    \/ \E text \in UserTexts :
          phase = "idle" /\ Len(dom) < MaxChat /\ SendEnhancedMessage(text)
    \/ \E text \in UserTexts : SendEnhancedMessageOther(text)
    \/ ResponseOk
    \/ ResponseNotOk
    \/ ResponseOkOther
    \/ ResponseNotOkOther
    \/ \E k \in 1..Len(Wire(body)) : ReadChunk(k)
    \/ \E k \in 1..Len(Wire(other.body)) : ReadChunkOther(k)
    \/ ReadDone
    \/ ReadDoneOther
    \/ Tick

ConcSpec == ChatStart /\ [][ConcNext]_vars

\* both channels with their sockets failing at any time, the workflow
\* channel opened and torn down by its consumer
DelayNext ==
    \/ Open
    \/ Teardown
    \/ SocketEvents
    \/ SocketEventsB

DelaySpec == Init /\ [][DelayNext]_vars

\* both channels, never torn down; the event loop runs every due timer
LiveNext ==
    \/ Open
    \/ SocketEvents
    \/ SocketEventsB
    \/ \E h \in SocketHandles, raw \in SampleMessages :
          Len(messages) < MaxLifecycleLog /\ SocketMessage(h, raw)

LiveSpec == Init /\ [][LiveNext]_vars /\ WF_vars(TimerFire) /\ WF_vars(TimerFireB)

\* ------------------------------------------------------------------ claims
\* folds of the message log by type
OfType(log, t) == SelectSeq(log, LAMBDA m : m.isObject /\ m.type = t)
LastOfType(log, t) ==
    IF OfType(log, t) = <<>> THEN NoStatus ELSE OfType(log, t)[Len(OfType(log, t))]
Unrouted(data) == ~data.isObject \/ data.type \notin KnownTypes
LiveStates == {"CONNECTING", "OPEN"}

\* C1: teardown of the workflow channel is race-free.  In every state, every
\* socket of a torn-down connection is closing or closed (none is connecting
\* or open, none was created after the teardown) and no reconnect timer of a
\* torn-down connection is pending.
C1_TeardownRaceFree ==
    /\ \A h \in SocketHandles : sockets[h].stale => sockets[h].readyState \notin LiveStates
    /\ \A i \in 1..Len(timers) : ~timers[i].stale

\* C2: reconnection liveness on both channels, never torn down.  Every close
\* or error schedules one reconnect timer with the channel's fixed delay, and
\* whenever an opened channel has no socket left a new connection attempt
\* eventually follows, however many failures came before.
ChannelDown == workflowId # undefined /\ \A h \in SocketHandles : sockets[h].readyState = "CLOSED"
ChannelDownB == \A h \in SocketHandles : socketsB[h] = "CLOSED"
C2_ReconnectLiveness ==
    /\ [][\A h \in SocketHandles : SocketClose(h) =>
             /\ Len(timers') = Len(timers) + 1
             /\ timers'[Len(timers')].delay = ReconnectDelay]_vars
    /\ [][\A h \in SocketHandles : SocketCloseB(h) =>
             /\ Len(timersB') = Len(timersB) + 1
             /\ timersB'[Len(timersB')].delay = ReconnectDelayB]_vars
    /\ ChannelDown ~> (\E h \in SocketHandles : sockets[h].readyState = "CONNECTING")
    /\ ChannelDownB ~> (\E h \in SocketHandles : socketsB[h] = "CONNECTING")
\* both channels have failed and reconnected at least once
C2_Witness ==
    /\ \E h \in SocketHandles : sockets[h].readyState = "CONNECTING"
    /\ reconnectTimeoutRef # null /\ timers = <<>>
    /\ websocket # 1 /\ socketsB[websocket] = "CONNECTING"

\* the read loop's state before the first read
FreshStream ==
    [acc |-> <<>>, id |-> null, dom |-> <<>>, msgs |-> <<>>, analysisTab |-> "",
     events |-> <<>>, escaped |-> FALSE, now |-> clock]
\* the wire format read directly: which lines are content envelopes
IsContentLine(line) == \E d \in Deltas : line = ContentLine(d)
DeltaOf(line) == CHOOSE d \in Deltas : line = ContentLine(d)
RECURSIVE DeltasOf(_)
DeltasOf(lines) ==
    IF lines = <<>> THEN <<>>
    ELSE (IF IsContentLine(Head(lines)) THEN <<DeltaOf(Head(lines))>> ELSE <<>>)
            \o DeltasOf(Tail(lines))
\* line i reached the parser whole: its text was read and no read boundary
\* fell inside it
Delivered(i) == LineStart(body, i) + Len(body[i]) <= pos /\ i \notin torn
DeliveredLines == SelectSeq([i \in 1..Len(body) |-> IF Delivered(i) THEN body[i] ELSE <<NL>>],
                            LAMBDA l : l # <<NL>>)

\* C3: the accumulator buffers partial lines across reads.  For every body and
\* every way of cutting it into reads, when the stream has ended the
\* accumulated text and the sequence of content/analysis/complete events are
\* those of the body read whole in a single read.
C3_SplitIndependent ==
    phase = "done" =>
        /\ accumulatedContent = Consume(FreshStream, Wire(body)).acc
        /\ streamEvents = Consume(FreshStream, Wire(body)).events

\* C4: after the k-th valid content chunk has been processed the accumulated
\* text is c1 ++ ... ++ ck: in every state it is the concatenation, in arrival
\* order, of the deltas of the content lines that reached the parser so far.
C4_ContentConcatenated == accumulatedContent = DeltasOf(DeliveredLines)
\* two different deltas were accumulated, then the stream ended
C4_Witness ==
    /\ phase = "done"
    /\ body = <<ContentLine("a"), ContentLine("b")>>
    /\ accumulatedContent = <<"a", "b">>

\* C5: a marked line with malformed JSON leaves the accumulated text
\* unchanged, lets no exception leave the read loop and does not stop the
\* later lines: every read adds exactly the deltas of the well-formed content
\* lines of its chunk and the loop keeps reading.
C5_MalformedLineSkipped ==
    [][\A k \in 1..Len(Wire(body)) : ReadChunk(k) =>
          /\ phase' = "reading"
          /\ streamError' = "none"
          /\ accumulatedContent' = accumulatedContent
                \o DeltasOf(Split(SubSeq(Wire(body), pos + 1, pos + k)))]_vars
\* a malformed line was skipped and the content line after it accumulated
C5_Witness ==
    /\ phase = "done"
    /\ body = <<MalformedLine, ContentLine("b")>>
    /\ torn = {}
    /\ accumulatedContent = <<"b">>

\* C6: once a complete chunk has been processed the session is and stays
\* complete, whatever came before it: no message element of the reply is
\* still marked streaming or shows the cursor, and no stored message is
\* still flagged isStreaming.
C6_CompleteFinalizes ==
    (\E i \in 1..Len(streamEvents) : streamEvents[i] = "complete") =>
        /\ \A i \in 1..Len(dom) : ~dom[i].streaming /\ ~dom[i].cursor
        /\ \A i \in 1..Len(chatMessages) : ~chatMessages[i].isStreaming

\* C7: on both channels a frame that is not valid JSON is discarded inside the
\* message handler: no exception leaves the handler and the log, the buckets
\* and the rendered state are unchanged.
C7_ParseFailureContained ==
    /\ [][\A h \in SocketHandles, raw \in RawMessages :
             (SocketMessage(h, raw) /\ ~raw.wellFormed) => UNCHANGED hookVars]_vars
    /\ [][\A h \in SocketHandles, raw \in RawNotifications :
             (SocketMessageB(h, raw) /\ ~raw.wellFormed) =>
                 /\ uncaughtErrors' = uncaughtErrors
                 /\ UNCHANGED <<analysisTab, toasts>>]_vars

\* C8: in every reachable state the typed projections are the fold of the
\* message log by type: workflowStatus and feedback are the last
\* workflow_update / feedback_ready of the log (null if none), arguments and
\* debateTurns are the log's argument_generated / debate_turn entries in order.
C8_ProjectionsAreFold ==
    /\ workflowStatus = LastOfType(messages, "workflow_update")
    /\ feedback = LastOfType(messages, "feedback_ready")
    /\ wsArguments = OfType(messages, "argument_generated")
    /\ debateTurns = OfType(messages, "debate_turn")
\* two different workflow updates, then an argument
C8_Witness ==
    /\ Len(messages) = 3
    /\ messages[1].type = "workflow_update" /\ messages[2].type = "workflow_update"
    /\ messages[1] # messages[2]
    /\ messages[3].type = "argument_generated"

\* C9: dispatching a parseable frame whose type is none of the four known
\* types appends it to the message log and leaves workflowStatus, arguments,
\* debateTurns and feedback unchanged.
C9_UnknownTypeOnlyLogged ==
    [][\A h \in SocketHandles, raw \in RawMessages :
          (SocketMessage(h, raw) /\ mounted /\ raw.wellFormed /\ Unrouted(raw.value)) =>
              /\ messages' = Append(messages, raw.value)
              /\ UNCHANGED <<workflowStatus, wsArguments, debateTurns, feedback>>]_vars
\* an unknown type was logged after a routed frame
C9_Witness ==
    /\ Len(messages) = 2
    /\ messages[2].isObject /\ messages[2].type = "notification"
    /\ feedback # NoStatus
    /\ workflowStatus = NoStatus /\ wsArguments = <<>> /\ debateTurns = <<>>

\* C10: opening the workflow channel with an undefined id attempts no
\* connection: the step creates no socket, does not change the connectivity
\* status (false at mount) and schedules no reconnect timer.
C10_NoConnectWithoutId ==
    /\ workflowId = undefined /\ ~isConnected /\ timers = <<>>
    /\ \A h \in SocketHandles : sockets[h].readyState = "CLOSED"
    /\ [][IdChange(undefined) =>
             /\ \A h \in SocketHandles :
                   sockets'[h].readyState = "CONNECTING" => sockets[h].readyState = "CONNECTING"
             /\ socket' = socket
             /\ isConnected' = isConnected
             /\ reconnectTimeoutRef' = reconnectTimeoutRef
             /\ Len(timers') <= Len(timers)]_vars
\* the id went back to undefined while the channel was up
C10_Witness ==
    /\ mounted /\ workflowId = undefined
    /\ \E h \in SocketHandles : sockets[h].stale

\* C11: send on the workflow channel is a no-op unless the connection is open.
\* A call of sendMessage made while there is no socket, or the socket is
\* connecting, closing or closed, changes nothing: nothing is transmitted,
\* connection state and log are unchanged; and a payload is only ever handed
\* to a socket by a call made while that socket is open, so none is kept for
\* delivery after a later reconnect.
ConnectionOpen == socket # null /\ sockets[socket].readyState = "OPEN"
C11_SendNoOpUnlessOpen ==
    [][/\ \A m \in OutMessages : (SendMessage(m) /\ ~ConnectionOpen) =>
              UNCHANGED <<hookVars, notifVars, streamVars, sent>>
       /\ sent' # sent =>
              /\ ConnectionOpen
              /\ \E m \in OutMessages :
                    /\ SendMessage(m)
                    /\ sent' = Append(sent, [socket |-> socket, message |-> m])]_vars
\* a call was dropped: after one transmitted payload and a received frame the
\* channel is reconnecting, and sendMessage has been called once more
C11_Witness ==
    /\ Len(sent) = 1
    /\ sendCalls = 2
    /\ messages # <<>>
    /\ socket # null
    /\ sockets[socket].readyState = "CONNECTING"

\* C12: teardown is idempotent.  Right after a teardown of the workflow
\* channel (the id becomes empty, or the component unmounts), the teardown
\* the program can run next finds nothing left to do: run again it would
\* leave every socket and the timer queue as the first one left them.
C12_TeardownIdempotent ==
    [][Teardown => (CleanupSockets' = sockets' /\ CleanupTimers' = timers')]_vars

\* C13: fallback determinism.  When the fallback starts for a single-mode
\* request whose input contains "texting while walking", the timers it
\* schedules are exactly the personal-injury scenario's first argument at
\* 1000 ms, its second argument at 2000 ms and its feedback at 3000 ms, and
\* the step schedules nothing else.
C13_FallbackDeterminism ==
    [][(Fallback /\ startMode = "single"
            /\ Includes(userInput, "texting while walking")) =>
          /\ simTimers' =
                <<[delay |-> 1000, setter |-> "setMockArguments",
                   event |-> [isObject |-> TRUE, type |-> "argument_generated",
                              payload |-> "personalInjury.arguments[0]"]],
                  [delay |-> 2000, setter |-> "setMockArguments",
                   event |-> [isObject |-> TRUE, type |-> "argument_generated",
                              payload |-> "personalInjury.arguments[1]"]],
                  [delay |-> 3000, setter |-> "setMockFeedback",
                   event |-> [isObject |-> TRUE, type |-> "feedback_ready",
                              payload |-> "personalInjury.feedback"]]>>
          /\ Len(timers') <= Len(timers)]_vars
\* the fallback has just scheduled its timers for such an input
C13_Witness ==
    /\ startPhase = "fallback"
    /\ startMode = "single"
    /\ Includes(userInput, "texting while walking")
    /\ Len(simTimers) = 3

\* C14: the simulator's timers are cancelable as a group.  Once the consumer
\* has torn down (Home has unmounted), no timer of the fallback simulator is
\* pending, so none can fire after the teardown.
C14_SimTimersCancelled == ~mounted => simTimers = <<>>

\* what the consumer can observe: the log and the three things Home renders
Visible ==
    [log |-> messages, arguments |-> actualArguments,
     debateTurns |-> actualDebateTurns, feedback |-> displayedFeedback]
\* the events the simulator delivers for the request, in delivery order
SimulatedEvents ==
    LET ts == Schedule(startMode, getMockResponse(startMode, userInput))
    IN  [i \in 1..Len(ts) |-> ts[i].event]
\* the hook's state after the frames of these events arrived on a fresh socket
RECURSIVE LiveFold(_, _)
LiveFold(b, events) ==
    IF events = <<>> THEN b
    ELSE LiveFold(Dispatch(b, [wellFormed |-> TRUE, value |-> Head(events)]), Tail(events))
EmptyBuckets ==
    [messages |-> <<>>, workflowStatus |-> NoStatus, wsArguments |-> <<>>,
     debateTurns |-> <<>>, feedback |-> NoStatus]

\* C15: simulated events are indistinguishable from live ones.  When the
\* simulator has delivered all its events to a mounted consumer that received
\* no live frame, the consumer-visible state (log, arguments, debate turns,
\* displayed feedback) equals the state the same events leave when they
\* arrive as frames on the live socket.
C15_SimulatedLikeLive ==
    (mounted /\ startPhase = "fallback" /\ simTimers = <<>> /\ messages = <<>>
        /\ feedback = NoStatus) =>
        LET live == LiveFold(EmptyBuckets, SimulatedEvents)
        IN  Visible = [log |-> live.messages, arguments |-> live.wsArguments,
                       debateTurns |-> live.debateTurns, feedback |-> live.feedback]

\* the error messages shown in the conversation
ErrorMessages(d) ==
    SelectSeq(d, LAMBDA e : e.type = "error" \/ e.text = ApologyText)

\* C16: a non-success status on the streaming or the non-streaming chat
\* endpoint surfaces no error to the user: the step that handles the failure
\* adds no error message to the conversation, neither to the message list on
\* screen nor to the stored messages.
C16_FailureSurfacesNoError ==
    [][(ResponseNotOk \/ AppChatFailed) =>
          /\ ErrorMessages(dom') = ErrorMessages(dom)
          /\ \A i \in 1..Len(appMessages') : appMessages'[i].content # ApologyText]_vars

\* C17: clearing the history empties the log and every projection derived
\* from it in one step: right after clearChatHistory the message list on
\* screen, the stored messages and the conversation context that the next
\* request would send are all empty.
C17_ClearResetsAll ==
    [][ClearChatHistory =>
          /\ dom' = <<>>
          /\ appMessages' = <<>>
          /\ ConversationContext(chatMessages') = <<>>]_vars

\* C18: a canceled connection never appends further events.  A frame
\* received on a socket of a connection that has been torn down (its id was
\* changed away, or the component unmounted) leaves the log, workflowStatus,
\* arguments, debateTurns and feedback as they were.
C18_CanceledNeverAppends ==
    [][\A h \in SocketHandles, raw \in RawMessages :
          (SocketMessage(h, raw) /\ sockets[h].stale) =>
              UNCHANGED <<messages, workflowStatus, wsArguments, debateTurns, feedback>>]_vars

\* what onclose of the workflow channel does to an open socket h
ClosesToDisconnected(h) ==
    /\ sockets'[h].readyState = "CLOSED"
    /\ mounted => (~isConnected' /\ socket' = null)
    /\ Len(timers') = Len(timers) + 1
    /\ timers'[Len(timers')].delay = 3000
    /\ SubSeq(timers', 1, Len(timers)) = timers
\* what onclose of the notification channel does to an open socket h
SchedulesFixedB(h) ==
    /\ socketsB'[h] = "CLOSED"
    /\ timersB' = Append(timersB, [delay |-> 5000])

IsPrefix(a, b) == Len(a) <= Len(b) /\ SubSeq(b, 1, Len(a)) = a

\* the workflow channel's part of C20: every frame that parses adds exactly
\* one entry, its value, at the end of the log, and no step changes or
\* removes an entry
C20_HookLogAppendOnly ==
    [][/\ \A h \in SocketHandles, raw \in RawMessages :
              (SocketMessage(h, raw) /\ mounted /\ raw.wellFormed) =>
                  messages' = Append(messages, raw.value)
       /\ IsPrefix(messages, messages')]_vars

\* C20: the conversation log is append-only with no deduplication.  On the
\* workflow channel every parsed frame adds one entry at the end (twice the
\* same frame, two entries); and in every log of the program (the hook's
\* messages, ChatState.messages, AppState.messages) an entry once appended
\* is never modified, reordered or removed, except by an explicit clear.
C20_AppendOnlyLog ==
    /\ C20_HookLogAppendOnly
    /\ [][~ClearChatHistory =>
             (IsPrefix(chatMessages, chatMessages') /\ IsPrefix(appMessages, appMessages'))]_vars

\* the workflow channel has a socket that is open and was not torn down
HasLiveOpenSocket ==
    \E h \in SocketHandles : sockets[h].readyState = "OPEN" /\ ~sockets[h].stale

\* C21: between handlers the status the mounted consumer sees, isConnected, is
\* true if and only if the workflow channel has a socket in the open state
\* that has not been torn down.
C21_StatusIffOpen == mounted => (isConnected <=> HasLiveOpenSocket)

\* the scenario of the pending or simulated request, its content elements
\* and the interval of its mode
RequestScenario == getMockResponse(startMode, userInput)
ScenarioContent == IF startMode = "single" THEN RequestScenario.arguments
                                           ELSE RequestScenario.turns
ScenarioInterval == IF startMode = "single" THEN 1000 ELSE 2000
\* what the simulator has delivered to Home so far
DeliveredContent == IF startMode = "single" THEN mockArguments ELSE mockDebateTurns

\* C22: for a scenario with n content elements the fallback schedules element
\* i at i times the interval of the mode (1000 ms single, 2000 ms debate) and
\* the feedback at (n+1) times the interval, and nothing else; so the content
\* delivered so far is always a prefix of the scenario's content in scenario
\* order, and once the feedback has been delivered every content element has.
C22_SimulatorSchedule ==
    /\ [][Fallback =>
             LET n == Len(ScenarioContent) IN
             /\ Len(simTimers') = n + 1
             /\ \A i \in 1..n :
                   /\ simTimers'[i].delay = i * ScenarioInterval
                   /\ simTimers'[i].event = ScenarioContent[i]
             /\ simTimers'[n + 1].delay = (n + 1) * ScenarioInterval
             /\ simTimers'[n + 1].event = RequestScenario.feedback]_vars
    /\ [](startPhase = "fallback" =>
             /\ IsPrefix(DeliveredContent, ScenarioContent)
             /\ mockFeedback # NoStatus =>
                   (DeliveredContent = ScenarioContent
                        /\ mockFeedback = RequestScenario.feedback))
\* the three turns of the non-compete debate were delivered, then its feedback
C22_Witness ==
    /\ mounted
    /\ startPhase = "fallback"
    /\ startMode = "debate"
    /\ Len(mockDebateTurns) = 3
    /\ mockFeedback # NoStatus
    /\ simTimers = <<>>

\* the input contains the phrase in some spelling of upper and lower case
Spellings(phrase) ==
    CASE phrase = "texting while walking" -> {phrase, "Texting While Walking"}
      [] phrase = "california" -> {phrase, "California"}
      [] OTHER -> {phrase}
Mentions(text, phrase) == \E i \in 1..Len(text) : text[i] \in Spellings(phrase)
\* the events of the timers, in the order they were scheduled
ScheduledEvents(ts) == [i \in 1..Len(ts) |-> ts[i].event]

\* C23: scenario selection is a case-insensitive substring match on the input,
\* restricted to the mode of the request.  Single mode with "personal injury"
\* or "texting while walking" plays the personal-injury scenario, debate mode
\* with "non-compete" or "california" the non-compete scenario, and every
\* other pair, a keyword of the other mode's scenario included, plays the
\* mode's generic scenario: one content element, then one feedback.
C23_ScenarioSelection ==
    [][Fallback =>
          LET events == ScheduledEvents(simTimers')
              pi == mockResponses.single.personalInjury
              nc == mockResponses.debate.nonCompete
          IN  IF startMode = "single" /\ (Mentions(userInput, "personal injury")
                                            \/ Mentions(userInput, "texting while walking"))
                  THEN events = pi.arguments \o <<pi.feedback>>
              ELSE IF startMode = "debate" /\ (Mentions(userInput, "non-compete")
                                                 \/ Mentions(userInput, "california"))
                  THEN events = nc.turns \o <<nc.feedback>>
              ELSE /\ Len(events) = 2
                   /\ events[1] = [isObject |-> TRUE,
                                   type |-> IF startMode = "single" THEN "argument_generated"
                                                                    ELSE "debate_turn",
                                   payload |-> IF startMode = "single"
                                                   THEN "default.arguments[0]"
                                                   ELSE "default.turns[0]"]
                   /\ events[2].type = "feedback_ready"
                   /\ events[2].payload \notin {pi.feedback.payload, nc.feedback.payload}]_vars
\* a single-mode request that names only the debate scenario's keyword, in
\* capitals, got the generic single scenario
C23_Witness ==
    /\ startPhase = "fallback"
    /\ startMode = "single"
    /\ userInput = <<" ", "other", "California">>
    /\ ScheduledEvents(simTimers) =
          <<[isObject |-> TRUE, type |-> "argument_generated", payload |-> "default.arguments[0]"],
            [isObject |-> TRUE, type |-> "feedback_ready", payload |-> "default.single.feedback"]>>

\* a chunk of the given type has been processed
Processed(type) == \E i \in 1..Len(streamEvents) : streamEvents[i] = type
\* the message of the stream session is marked as no longer streaming: its
\* element and its stored entry
SessionFinalized ==
    /\ \A i \in 1..Len(dom) : dom[i].id = assistantMessageId => ~dom[i].streaming
    /\ \A i \in 1..Len(chatMessages) :
          chatMessages[i].id = assistantMessageId => ~chatMessages[i].isStreaming

\* C24: a stream session is finalized when the stream ends, even without a
\* complete chunk.  When the body has closed and the read loop has ended
\* (after which nothing touches the message again) after at least one content
\* chunk and no complete chunk, the session's message is marked not streaming.
C24_FinalizedOnStreamEnd ==
    (phase = "done" /\ assistantMessageId # null /\ ~Processed("complete")) =>
        SessionFinalized

\* C25: the content sequence of a stream is terminated by a complete chunk.
\* Once a complete chunk has finalized the session's message, a read that
\* brings later chunks of the same stream renders nothing more: the message
\* elements (text, streaming mark, cursor) and the stored messages stay as
\* the complete chunk left them.
C25_CompleteTerminatesContent ==
    [][\A k \in 1..Len(Wire(body)) :
          (ReadChunk(k) /\ Processed("complete") /\ assistantMessageId # null) =>
              (dom' = dom /\ chatMessages' = chatMessages)]_vars

\* the lines of a chunk that carry no content: no marker, or an analysis chunk
CarriesNoContent(line) == ~StartsWithMarker(line) \/ line = AnalysisLine
AnalysisCount(lines) == Len(SelectSeq(lines, LAMBDA l : l = AnalysisLine))

\* C26: lines that carry no content leave accumulation untouched.  A read
\* whose chunk holds only lines without the marker and analysis chunks leaves
\* the accumulated text, the session's message id, the message elements, the
\* stored messages and the loop as they were; the lines without the marker
\* have no effect at all and each analysis chunk is forwarded to the analysis
\* panel.
C26_NoContentLinesIgnored ==
    [][\A k \in 1..Len(Wire(body)) :
          LET lines == Split(SubSeq(Wire(body), pos + 1, pos + k)) IN
          (ReadChunk(k) /\ \A i \in 1..Len(lines) : CarriesNoContent(lines[i])) =>
              /\ UNCHANGED <<accumulatedContent, assistantMessageId, dom, chatMessages,
                             streamError>>
              /\ phase' = "reading"
              /\ Len(streamEvents') = Len(streamEvents) + AnalysisCount(lines)
              /\ \A i \in (Len(streamEvents) + 1)..Len(streamEvents') :
                    streamEvents'[i] = "analysis"
              /\ IsPrefix(streamEvents, streamEvents')
              /\ analysisTab' = IF AnalysisCount(lines) > 0 THEN "stream" ELSE analysisTab]_vars
\* an analysis chunk arrived in a read of its own after a content chunk had
\* created the message: the text is still that of the content chunk
C26_Witness ==
    /\ phase = "done"
    /\ body = <<ContentLine("a"), AnalysisLine>>
    /\ torn = {}
    /\ assistantMessageId # null
    /\ accumulatedContent = <<"a">>
    /\ streamEvents = <<"content", "analysis">>
    /\ analysisTab = "stream"
    /\ \A i \in 1..Len(dom) : dom[i].text = <<"a">>

\* the sockets of each channel that are connecting or open
LiveSockets == {h \in SocketHandles : sockets[h].readyState \in LiveStates}
LiveSocketsB == {h \in SocketHandles : socketsB[h] \in LiveStates}

\* the notification channel's part of C27
C27_OneConnectionB ==
    /\ Cardinality(LiveSocketsB) <= 1
    /\ Len(timersB) <= 1
    /\ ~(timersB # <<>> /\ \E h \in SocketHandles : socketsB[h] = "OPEN")

\* C27: one connection per logical channel.  In every state each channel has
\* at most one socket that is connecting or open and at most one pending
\* reconnect timer, and never an open socket together with a pending
\* reconnect timer.
C27_OneConnectionPerChannel ==
    /\ Cardinality(LiveSockets) <= 1
    /\ Len(timers) <= 1
    /\ ~(timers # <<>> /\ \E h \in SocketHandles : sockets[h].readyState = "OPEN")
    /\ C27_OneConnectionB

\* the stream has finished: a complete chunk was processed or the body ended
StreamFinished == Processed("complete") \/ phase = "done"

\* C28: when a streamed reply has finished, the assistant entry stored for it
\* in ChatState.messages has the accumulated text as its content, and so has
\* the entry of the reply in the conversation context that the next request
\* would send.
C28_StoredContentIsAccumulated ==
    (StreamFinished /\ assistantMessageId # null) =>
        /\ \A i \in 1..Len(chatMessages) :
              chatMessages[i].id = assistantMessageId =>
                  chatMessages[i].content = accumulatedContent
        /\ \E i \in 1..Len(ConversationContext(chatMessages)) :
              /\ ConversationContext(chatMessages)[i].role = "assistant"
              /\ ConversationContext(chatMessages)[i].content = accumulatedContent

\* the text shown by the assistant elements that carry the given id
ShownFor(id) ==
    {dom[i].text : i \in {j \in 1..Len(dom) : dom[j].id = id /\ dom[j].type = "assistant"}}

\* C29: concurrent stream sessions are isolated.  While two streamed replies
\* are in flight, however their reads interleave, each session's accumulated
\* text holds its own content deltas in order, the message of each session
\* shows that session's text and is the only one it changed, and the two
\* messages have distinct ids.
C29_SessionsIsolated ==
    /\ IsPrefix(accumulatedContent, DeltasOf(body))
    /\ IsPrefix(other.acc, DeltasOf(other.body))
    /\ (assistantMessageId # null /\ other.id # null) =>
          /\ assistantMessageId # other.id
          /\ ShownFor(assistantMessageId) = {accumulatedContent}
          /\ ShownFor(other.id) = {other.acc}

\* C30: every way the workflow start can fail ends in fallback simulation.
\* When a request throws or the create request is answered with a
\* non-success status (the catch block runs), and when the execute request
\* is answered with a non-success status, mock mode is switched on (for a
\* mounted Home) and the simulator's timers are scheduled; when both requests
\* succeed mock mode stays off and no simulator timer is scheduled.
C30_StartFailureFallsBack ==
    [][/\ Fallback => ((mounted => useMockData') /\ simTimers' # <<>>)
       /\ ExecuteAnswered(FALSE) => ((mounted => useMockData') /\ simTimers' # <<>>)
       /\ ExecuteAnswered(TRUE) => (~useMockData' /\ simTimers' = <<>>)]_vars

====
